---- MODULE Spec2Model ----
(***************************************************************************)
(* A model of the spintax template library (src/src/index.mjs): range,    *)
(* compile, parse, count and choose.                                       *)
(*                                                                         *)
(* A string is a sequence of one-character strings.  Numbers are integers: *)
(* the alphabet of the modelled templates has digits and "-" but no ".",   *)
(* "+", "e" or "x", so every numeric part of a range placeholder is a      *)
(* signed decimal integer.  The only whitespace character is " ".          *)
(***************************************************************************)
EXTENDS Integers, Sequences, FiniteSets, TLC

VARIABLES
    mode,       \* the entry point the run exercises: "parse", "compile", "choose",
                \* "range" or "tokenize"
    template,   \* the template string handed to parse / count / choose
    cfg,        \* the options object handed to parse / count / choose
    strings,    \* compile: the literal string parts
    exprs,      \* compile: the expressions (generators)
    rangeArgs,  \* range: [start, end, step, includeEnd]
    rangeOut,   \* range: result of collecting range(...).values()
    cnt,        \* result of count(template, cfg)
    it,         \* the iterator obtained from parse(...) or compile`...`
    outputs,    \* the strings the iterator has yielded so far
    combos,     \* the combination behind each yielded string
    picked,     \* result of choose(template, cfg)(...inputChoices)
    firstRun,   \* what an earlier iteration of the same object yielded
    tokens,     \* result of subHelper(template, cfg)
    it2,        \* a second iterator obtained from the same parse(...) or compile`...`
    outputs2    \* the strings the second iterator has yielded so far

vars == <<mode, template, cfg, strings, exprs, rangeArgs, rangeOut,
          cnt, it, outputs, combos, picked, firstRun, tokens, it2, outputs2>>

(***************************************************************************)
(* Bounds of the model.                                                    *)
(***************************************************************************)
MaxPieces == 3      \* a template is a concatenation of at most MaxPieces pieces
MaxCustomPieces == 2 \* ... of at most MaxCustomPieces pieces under CustomConfig
MaxChoosePieces == 2 \* ... of at most MaxChoosePieces pieces in a run of choose
MaxMarkupPieces == 2 \* ... of at most MaxMarkupPieces pieces of MarkupPieces
MaxRestartPieces == 2 \* ... of at most MaxRestartPieces pieces when iterated twice
MaxRestartExprs == 2 \* compile is iterated twice with at most MaxRestartExprs expressions
MaxInterleavePieces == 2 \* ... of at most MaxInterleavePieces pieces when two iterators run
MaxInterleaveExprs == 2 \* two iterators of compile run over at most MaxInterleaveExprs expressions
MaxShapePieces == 2 \* templates of placeholders near the range shape have at most MaxShapePieces pieces
MaxTokenLen == 7    \* the tokenizer alone is run on strings of at most MaxTokenLen characters
MaxExprs == 3       \* compile takes at most MaxExprs expressions
MaxRange == 4       \* range(start, end, ..) with start, end in -1..MaxRange
MaxStep == 3        \* range(.., step, ..) with step in -1..MaxStep
MaxYield == 4       \* cap on the values drawn from a generator that never ends

(***************************************************************************)
(* Strings and numbers.                                                    *)
(***************************************************************************)
DigitChars == <<"0", "1", "2", "3", "4", "5", "6", "7", "8", "9">>

IsDigit(c) == \E i \in 1..10 : DigitChars[i] = c

DigitVal(c) == (CHOOSE i \in 1..10 : DigitChars[i] = c) - 1

IsWs(c) == c = " "

Abs(n) == IF n < 0 THEN -n ELSE n

\* true when every element of s satisfies IsDigit
AllDigits(s) == \A i \in 1..Len(s) : IsDigit(s[i])

RECURSIVE DigitsToNat(_)
\* value of a run of decimal digits (parseInt(digits, 10), parseFloat on digits)
DigitsToNat(s) ==
    IF s = <<>> THEN 0
    ELSE 10 * DigitsToNat(SubSeq(s, 1, Len(s) - 1)) + DigitVal(s[Len(s)])

RECURSIVE NatToStr(_)
\* decimal digits of a natural number, no leading zeros
NatToStr(n) ==
    IF n < 10 THEN <<DigitChars[n + 1]>>
    ELSE NatToStr(n \div 10) \o <<DigitChars[(n % 10) + 1]>>

\* Number -> String as string concatenation does it (integers only)
NumToStr(n) == IF n < 0 THEN <<"-">> \o NatToStr(-n) ELSE NatToStr(n)

RECURSIVE Flatten(_)
\* concatenation of a sequence of strings
Flatten(ss) == IF ss = <<>> THEN <<>> ELSE Head(ss) \o Flatten(Tail(ss))

\* true when s[i..] starts with p
StartsAt(s, i, p) ==
    /\ i + Len(p) - 1 <= Len(s)
    /\ \A k \in 1..Len(p) : s[i + k - 1] = p[k]

\* mutant of RemoveWs: whitespace is kept
RemoveWsNone(s) == s

RECURSIVE RemoveWs(_)
\* pattern.replace(/\s+/g, "")
RemoveWs(s) ==
    IF s = <<>> THEN <<>>
    ELSE IF IsWs(Head(s)) THEN RemoveWs(Tail(s))
    ELSE <<Head(s)>> \o RemoveWs(Tail(s))

RECURSIVE TrimLeft(_)
TrimLeft(s) == IF s # <<>> /\ IsWs(Head(s)) THEN TrimLeft(Tail(s)) ELSE s

RECURSIVE TrimRight(_)
TrimRight(s) ==
    IF s # <<>> /\ IsWs(s[Len(s)]) THEN TrimRight(SubSeq(s, 1, Len(s) - 1)) ELSE s

\* String.prototype.trim
Trim(s) == TrimRight(TrimLeft(s))

RECURSIVE StripTrailing(_, _)
\* s.replace(new RegExp(`\\${sep}+$`), ""): drop the trailing run of sep
StripTrailing(s, sep) ==
    IF s # <<>> /\ s[Len(s)] = sep THEN StripTrailing(SubSeq(s, 1, Len(s) - 1), sep)
    ELSE s

RECURSIVE Split(_, _)
\* String.prototype.split on a one-character separator
Split(s, sep) ==
    IF \A i \in 1..Len(s) : s[i] # sep THEN <<s>>
    ELSE LET i == CHOOSE k \in 1..Len(s) :
                      s[k] = sep /\ \A m \in 1..(k - 1) : s[m] # sep
         IN <<SubSeq(s, 1, i - 1)>> \o Split(SubSeq(s, i + 1, Len(s)), sep)

Includes(s, c) == \E i \in 1..Len(s) : s[i] = c

\* Math.floor(a / b) for b # 0
FloorDiv(a, b) ==
    LET q == Abs(a) \div Abs(b)
        exact == Abs(a) % Abs(b) = 0
    IN IF (a >= 0) = (b > 0) THEN q
       ELSE IF exact THEN -q ELSE -(q + 1)

\* a % b of JavaScript for b # 0: the sign of the dividend
JsRem(a, b) == IF a >= 0 THEN a % Abs(b) ELSE -((-a) % Abs(b))

(***************************************************************************)
(* Generators.                                                             *)
(***************************************************************************)
RECURSIVE RangeLoop(_, _, _)
\* for (let i = start; i <= end; i += step) yield i;  (when the loop ends)
RangeLoop(i, end, step) ==
    IF i <= end THEN <<i>> \o RangeLoop(i + step, end, step) ELSE <<>>

\* mutant of RangeTail: includeEnd is not looked at
RangeTailAlways(start, end, step, includeEnd) ==
    /\ step # 0
    /\ JsRem(end - start, step) # 0
    /\ end > start + FloorDiv(end - start, step) * step

\* the condition under which values() yields end once more after the loop;
\* with step = 0 the remainder is NaN and the comparison with NaN is false
RangeTail(start, end, step, includeEnd) ==
    /\ includeEnd
    /\ step # 0
    /\ JsRem(end - start, step) # 0
    /\ end > start + FloorDiv(end - start, step) * step

\* the loop of values() never ends: i <= end stays true
RangeDiverges(start, end, step) == start <= end /\ step <= 0

\* [...new RangeGenerator(start, end, step, includeEnd).values()]
RangeValues(start, end, step, includeEnd) ==
    RangeLoop(start, end, step)
        \o (IF RangeTail(start, end, step, includeEnd) THEN <<end>> ELSE <<>>)

\* range(start, end, step = 1, includeEnd = true)
range(start, end, step, includeEnd) ==
    [kind |-> "range", start |-> start, end |-> end, step |-> step,
     includeEnd |-> includeEnd]

\* an array used as a generator
ArrayGen(options) == [kind |-> "choices", options |-> options]

\* mutant of StaticGenerator: values() yields the value twice
StaticGeneratorTwice(value) == ArrayGen(<<value, value>>)

\* new StaticGenerator(value): values() yields the value once
StaticGenerator(value) == [kind |-> "static", value |-> value]

Diverges(g) == g.kind = "range" /\ RangeDiverges(g.start, g.end, g.step)

\* collectValues(gen.values()), each value as the text it concatenates to
collectValues(g) ==
    IF g.kind = "range"
    THEN LET vs == RangeValues(g.start, g.end, g.step, g.includeEnd)
         IN [k \in 1..Len(vs) |-> NumToStr(vs[k])]
    ELSE IF g.kind = "choices" THEN g.options
    ELSE <<g.value>>

\* whether a lazily iterated generator has a k-th value, and that value
HasAt(g, k) == IF Diverges(g) THEN TRUE ELSE k <= Len(collectValues(g))

ValueAt(g, k) ==
    IF Diverges(g) THEN NumToStr(g.start + (k - 1) * g.step)
    ELSE collectValues(g)[k]

(***************************************************************************)
(* cartesianProduct, as the iterator it is: idx holds the loop position of *)
(* each generator (1-based), <<>> before the first call of next().         *)
(***************************************************************************)
RECURSIVE BumpLeftFrom(_, _, _)
BumpLeftFrom(lens, idx, j) ==
    IF j > Len(idx) THEN [done |-> TRUE, idx |-> idx]
    ELSE IF idx[j] < lens[j]
    THEN [done |-> FALSE,
          idx |-> [k \in 1..Len(idx) |->
                     IF k > j THEN idx[k] ELSE IF k = j THEN idx[j] + 1 ELSE 1]]
    ELSE BumpLeftFrom(lens, idx, j + 1)

\* mutant of Bump: the leftmost loop is the innermost one
BumpLeftFirst(lens, idx, j) == BumpLeftFrom(lens, idx, 1)

RECURSIVE BumpSkipLast(_, _, _)
\* mutant of Bump: every loop stops one value early
BumpSkipLast(lens, idx, j) ==
    IF j = 0 THEN [done |-> TRUE, idx |-> idx]
    ELSE IF idx[j] < lens[j] - 1
    THEN [done |-> FALSE,
          idx |-> [k \in 1..Len(idx) |->
                     IF k < j THEN idx[k] ELSE IF k = j THEN idx[j] + 1 ELSE 1]]
    ELSE BumpSkipLast(lens, idx, j - 1)

RECURSIVE Bump(_, _, _)
\* the nested loops of generateCombinations: advance the innermost loop that
\* has a value left, restart the loops inside it; "done" when none has
Bump(lens, idx, j) ==
    IF j = 0 THEN [done |-> TRUE, idx |-> idx]
    ELSE IF idx[j] < lens[j]
    THEN [done |-> FALSE,
          idx |-> [k \in 1..Len(idx) |->
                     IF k < j THEN idx[k] ELSE IF k = j THEN idx[j] + 1 ELSE 1]]
    ELSE Bump(lens, idx, j - 1)

\* one call of next() on cartesianProduct(generators); st is the iterator state
\* [status, idx].  Returns the new state and whether a combination is yielded.
cartesianProduct(generators, st) ==
    LET L == Len(generators) IN
    IF st.status = "done" \/ st.status = "hung"
    THEN [status |-> st.status, idx |-> st.idx, yield |-> FALSE]
    ELSE IF L = 0
    THEN IF st.status = "idle"
         THEN [status |-> "running", idx |-> <<>>, yield |-> TRUE]
         ELSE [status |-> "done", idx |-> <<>>, yield |-> FALSE]
    ELSE IF L = 1
    THEN LET k == IF st.status = "idle" THEN 1 ELSE st.idx[1] + 1 IN
         IF HasAt(generators[1], k)
         THEN [status |-> "running", idx |-> <<k>>, yield |-> TRUE]
         ELSE [status |-> "done", idx |-> st.idx, yield |-> FALSE]
    ELSE IF \E j \in 1..L : Diverges(generators[j])
    THEN [status |-> "hung", idx |-> st.idx, yield |-> FALSE]
    ELSE LET lens == [j \in 1..L |-> Len(collectValues(generators[j]))] IN
         IF st.status = "idle"
         THEN IF \A j \in 1..L : lens[j] > 0
              THEN [status |-> "running", idx |-> [j \in 1..L |-> 1], yield |-> TRUE]
              ELSE [status |-> "done", idx |-> <<>>, yield |-> FALSE]
         ELSE LET b == Bump(lens, st.idx, L) IN
              IF b.done THEN [status |-> "done", idx |-> st.idx, yield |-> FALSE]
              ELSE [status |-> "running", idx |-> b.idx, yield |-> TRUE]

\* the combination the iterator holds at loop position idx
Combination(generators, idx) ==
    [j \in 1..Len(generators) |-> ValueAt(generators[j], idx[j])]

(***************************************************************************)
(* subHelper: the tokenizer.  The pattern is the regular expression        *)
(*   patternStart ([^patternEnd]+) patternEnd                              *)
(* where [^patternEnd] is a character class: any character that is not    *)
(* one of the characters of patternEnd.                                    *)
(***************************************************************************)
RECURSIVE RunLen(_, _, _)
\* length of the longest run t[j..] of characters outside the class
RunLen(t, j, endChars) ==
    IF j <= Len(t) /\ t[j] \notin endChars
    THEN 1 + RunLen(t, j + 1, endChars)
    ELSE 0

EndChars(patternEnd) == {patternEnd[k] : k \in 1..Len(patternEnd)}

\* mutant of MatchAt: the content may be empty ("*" in place of "+")
MatchAtEmpty(t, i, patternStart, patternEnd) ==
    LET j == i + Len(patternStart)
        n == RunLen(t, j, EndChars(patternEnd))
    IN /\ StartsAt(t, i, patternStart)
       /\ StartsAt(t, j + n, patternEnd)

\* mutant of MatchAt: the end delimiter is not required
MatchAtUnterminated(t, i, patternStart, patternEnd) ==
    LET j == i + Len(patternStart)
        n == RunLen(t, j, EndChars(patternEnd))
    IN /\ StartsAt(t, i, patternStart)
       /\ n >= 1

\* whether the expression matches at position i of t
MatchAt(t, i, patternStart, patternEnd) ==
    LET j == i + Len(patternStart)
        n == RunLen(t, j, EndChars(patternEnd))
    IN /\ StartsAt(t, i, patternStart)
       /\ n >= 1
       /\ StartsAt(t, j + n, patternEnd)

\* patternRegex.exec(template) from lastIndex: the leftmost match, 0 if none
ExecFrom(t, lastIndex, patternStart, patternEnd) ==
    LET hits == {i \in lastIndex..Len(t) : MatchAt(t, i, patternStart, patternEnd)}
    IN IF hits = {} THEN 0
       ELSE CHOOSE i \in hits : \A k \in hits : i <= k

RECURSIVE MatchLoopSkipsOne(_, _, _, _, _, _)
\* mutant of MatchLoop: lastIndex is set one character too far
MatchLoopSkipsOne(t, lastIndex, patternStart, patternEnd, patterns, stringParts) ==
    LET i == ExecFrom(t, lastIndex, patternStart, patternEnd) IN
    IF i = 0
    THEN [patterns |-> patterns,
          stringParts |-> Append(stringParts, SubSeq(t, lastIndex, Len(t)))]
    ELSE LET j == i + Len(patternStart)
             n == RunLen(t, j, EndChars(patternEnd))
         IN MatchLoopSkipsOne(t, j + n + Len(patternEnd) + 1, patternStart, patternEnd,
                              Append(patterns, SubSeq(t, j, j + n - 1)),
                              Append(stringParts, SubSeq(t, lastIndex, i - 1)))

RECURSIVE MatchLoop(_, _, _, _, _, _)
\* the while loop of subHelper; lastIndex is 1-based here
MatchLoop(t, lastIndex, patternStart, patternEnd, patterns, stringParts) ==
    LET i == ExecFrom(t, lastIndex, patternStart, patternEnd) IN
    IF i = 0
    THEN [patterns |-> patterns,
          stringParts |-> Append(stringParts, SubSeq(t, lastIndex, Len(t)))]
    ELSE LET j == i + Len(patternStart)
             n == RunLen(t, j, EndChars(patternEnd))
         IN MatchLoop(t, j + n + Len(patternEnd), patternStart, patternEnd,
                      Append(patterns, SubSeq(t, j, j + n - 1)),
                      Append(stringParts, SubSeq(t, lastIndex, i - 1)))

subHelper(t, c) == MatchLoop(t, 1, c.patternStart, c.patternEnd, <<>>, <<>>)

(***************************************************************************)
(* Classification of a placeholder.                                        *)
(***************************************************************************)
RECURSIVE DigitRun(_, _)
\* length of the run of digits s[j..]
DigitRun(s, j) ==
    IF j <= Len(s) /\ IsDigit(s[j]) THEN 1 + DigitRun(s, j + 1) ELSE 0

\* mutant of backRefMatch: the default marker whatever the configuration says
backRefMatchDefault(pattern, marker) ==
    LET hits == {i \in 1..Len(pattern) :
                    pattern[i] = "$" /\ DigitRun(pattern, i + 1) >= 1}
    IN IF hits = {} THEN [found |-> FALSE, whole |-> <<>>, digits |-> <<>>]
       ELSE LET i == CHOOSE h \in hits : \A k \in hits : h <= k
                n == DigitRun(pattern, i + 1)
            IN [found |-> TRUE,
                whole |-> SubSeq(pattern, i, i + n),
                digits |-> SubSeq(pattern, i + 1, i + n)]

\* pattern.match(new RegExp(`\\${marker}(\\d+)`)): the leftmost marker that a
\* digit follows, with all the digits after it; found = FALSE for null
backRefMatch(pattern, marker) ==
    LET hits == {i \in 1..Len(pattern) :
                    pattern[i] = marker /\ DigitRun(pattern, i + 1) >= 1}
    IN IF hits = {} THEN [found |-> FALSE, whole |-> <<>>, digits |-> <<>>]
       ELSE LET i == CHOOSE h \in hits : \A k \in hits : h <= k
                n == DigitRun(pattern, i + 1)
            IN [found |-> TRUE,
                whole |-> SubSeq(pattern, i, i + n),
                digits |-> SubSeq(pattern, i + 1, i + n)]

\* mutant of isBackReference: a marker with digits anywhere in the placeholder
isBackReferenceAnywhere(pattern, marker) == backRefMatch(pattern, marker).found

\* the test that makes a placeholder a back reference
isBackReference(pattern, marker) ==
    LET m == backRefMatch(pattern, marker)
    IN m.found /\ m.whole = pattern /\ Trim(pattern) = m.whole

\* parseInt(backRefMatch[1], 10)
refIndexOf(pattern, marker) == DigitsToNat(backRefMatch(pattern, marker).digits)

\* !isNaN(parseFloat(part)) && isFinite(Number(part)), for a non-empty part
\* over the alphabet of the model: an optional "-" and then digits only
isNumber(part) ==
    LET body == IF part # <<>> /\ Head(part) = "-" THEN Tail(part) ELSE part
    IN body # <<>> /\ AllDigits(body)

\* parseFloat(part) for a part that isNumber accepts
parseFloat(part) ==
    IF Head(part) = "-" THEN -DigitsToNat(Tail(part)) ELSE DigitsToNat(part)

\* mutant of isRangePattern: any number of parts from two on
isRangePatternAnyParts(pattern, separator) ==
    LET noWhitespace == RemoveWs(pattern)
        trimmedPattern == StripTrailing(noWhitespace, separator)
        parts == Split(trimmedPattern, separator)
    IN /\ Includes(trimmedPattern, separator)
       /\ Len(parts) >= 2
       /\ \A k \in 1..Len(parts) : parts[k] # <<>> /\ isNumber(parts[k])

isRangePattern(pattern, separator) ==
    LET noWhitespace == RemoveWs(pattern)
        trimmedPattern == StripTrailing(noWhitespace, separator)
        parts == Split(trimmedPattern, separator)
    IN /\ Includes(trimmedPattern, separator)
       /\ Len(parts) >= 2 /\ Len(parts) <= 3
       /\ \A k \in 1..Len(parts) : parts[k] # <<>> /\ isNumber(parts[k])

\* <<start, end, step>> of a pattern that isRangePattern accepts
parseRangePattern(pattern, separator) ==
    LET noWhitespace == RemoveWs(pattern)
        trimmedPattern == StripTrailing(noWhitespace, separator)
        parts == Split(trimmedPattern, separator)
    IN <<parseFloat(parts[1]), parseFloat(parts[2]),
         IF Len(parts) > 2 THEN parseFloat(parts[3]) ELSE 1>>

\* mutant of patternGenerator: the options of a choice lose their whitespace
patternGeneratorNoWs(pattern, c) ==
    IF isRangePattern(pattern, c.separatorRange)
    THEN LET r == parseRangePattern(pattern, c.separatorRange)
         IN range(r[1], r[2], r[3], TRUE)
    ELSE ArrayGen(Split(RemoveWs(pattern), c.separatorChoices))

\* mutant of patternGenerator: the range is built with includeEnd false
patternGeneratorExclusiveEnd(pattern, c) ==
    IF isRangePattern(pattern, c.separatorRange)
    THEN LET r == parseRangePattern(pattern, c.separatorRange)
         IN range(r[1], r[2], r[3], FALSE)
    ELSE ArrayGen(Split(pattern, c.separatorChoices))

\* the generator parse, count and choose build for an actual placeholder
patternGenerator(pattern, c) ==
    IF isRangePattern(pattern, c.separatorRange)
    THEN LET r == parseRangePattern(pattern, c.separatorRange)
         IN range(r[1], r[2], r[3], TRUE)
    ELSE ArrayGen(Split(pattern, c.separatorChoices))

(***************************************************************************)
(* parse, count and choose.                                                *)
(***************************************************************************)
Null == -1      \* backReferences[i] === null: placeholder i is no back reference

\* the backReferences array: the index a back reference names, Null otherwise
backReferencesOf(patterns, c) ==
    [i \in 1..Len(patterns) |->
        IF isBackReference(patterns[i], c.backReferenceMarker)
        THEN refIndexOf(patterns[i], c.backReferenceMarker)
        ELSE Null]

RECURSIVE SelectActual(_, _)
\* actualChoiceIndices: the positions of the placeholders that are no back
\* reference, in template order
SelectActual(backReferences, i) ==
    IF i > Len(backReferences) THEN <<>>
    ELSE (IF backReferences[i] = Null THEN <<i>> ELSE <<>>)
             \o SelectActual(backReferences, i + 1)

actualChoiceIndices(backReferences) == SelectActual(backReferences, 1)

\* actualChoicePatterns: the generators of the actual placeholders
actualGenerators(patterns, backReferences, c) ==
    LET at == actualChoiceIndices(backReferences)
    IN [k \in 1..Len(at) |-> patternGenerator(patterns[at[k]], c)]

\* mutant of FindRef: the index of a back reference taken as a raw position
FindRefRaw(backReferences, j, limit, seen, refIndex) ==
    IF refIndex + 1 <= limit THEN refIndex + 1 ELSE 0

RECURSIVE FindRef(_, _, _, _, _)
\* the scan "for j ... if (backReferences[j] === null) { if (seen === refIndex)
\* found; seen++ }" over positions j..limit; 0 when the scan finds nothing
FindRef(backReferences, j, limit, seen, refIndex) ==
    IF j > limit THEN 0
    ELSE IF backReferences[j] = Null
    THEN IF seen = refIndex THEN j
         ELSE FindRef(backReferences, j + 1, limit, seen + 1, refIndex)
    ELSE FindRef(backReferences, j + 1, limit, seen, refIndex)

\* the text put in place of a back reference that finds nothing
fallbackText(c, refIndex) ==
    <<"{">> \o <<c.backReferenceMarker>> \o NatToStr(refIndex) \o <<"}">>

\* mutant of placeActual: the values are placed from the last position backwards
placeActualReversed(backReferences, actualCombination) ==
    LET at == actualChoiceIndices(backReferences)
    IN [i \in 1..Len(backReferences) |->
          IF backReferences[i] = Null
          THEN actualCombination[Len(at) + 1 - CHOOSE k \in 1..Len(at) : at[k] = i]
          ELSE <<>>]

\* the values of the actual placeholders at their original positions
placeActual(backReferences, actualCombination) ==
    LET at == actualChoiceIndices(backReferences)
    IN [i \in 1..Len(backReferences) |->
          IF backReferences[i] = Null
          THEN actualCombination[CHOOSE k \in 1..Len(at) : at[k] = i]
          ELSE <<>>]

\* parse: for a back reference at position i the scan stops before i
parseScanLimit(i, n) == i - 1

\* resolvedCombination of parse for one actualCombination
resolveParse(backReferences, actualCombination, c) ==
    LET placed == placeActual(backReferences, actualCombination)
        n == Len(backReferences)
    IN [i \in 1..n |->
          IF backReferences[i] = Null THEN placed[i]
          ELSE LET j == FindRef(backReferences, 1, parseScanLimit(i, n), 0,
                                backReferences[i])
               IN IF j # 0 THEN placed[j]
                  ELSE fallbackText(c, backReferences[i])]

RECURSIVE Interleave(_, _, _)
\* result = stringParts[0]; result += values[i] + stringParts[i + 1] ...
Interleave(stringParts, values, i) ==
    IF i > Len(values) THEN <<>>
    ELSE values[i] \o stringParts[i + 1] \o Interleave(stringParts, values, i + 1)

\* mutant of buildResult: the text before the first placeholder is dropped
buildResultNoHead(stringParts, values) == Interleave(stringParts, values, 1)

buildResult(stringParts, values) ==
    stringParts[1] \o Interleave(stringParts, values, 1)

\* one call of next() on the iterator of parse(t, c); st is its state
parseNext(t, c, st) ==
    LET h == subHelper(t, c)
        backReferences == backReferencesOf(h.patterns, c)
        gens == actualGenerators(h.patterns, backReferences, c)
        r == cartesianProduct(gens, st)
    IN IF r.yield
       THEN LET resolved == resolveParse(backReferences, Combination(gens, r.idx), c)
            IN [status |-> r.status, idx |-> r.idx, yield |-> TRUE,
                combo |-> resolved,
                result |-> buildResult(h.stringParts, resolved)]
       ELSE [status |-> r.status, idx |-> r.idx, yield |-> FALSE,
             combo |-> <<>>, result |-> <<>>]

RECURSIVE ParseLoop(_, _, _, _)
\* for (const s of parse(t, c)) outs.push(s), for a template whose generators end
ParseLoop(t, c, st, outs) ==
    LET r == parseNext(t, c, st) IN
    IF r.yield
    THEN ParseLoop(t, c, [status |-> r.status, idx |-> r.idx], Append(outs, r.result))
    ELSE outs

\* [...parse(t, c)]
parseAll(t, c) == ParseLoop(t, c, [status |-> "idle", idx |-> <<>>], <<>>)

RECURSIVE Product(_)
Product(ns) == IF ns = <<>> THEN 1 ELSE Head(ns) * Product(Tail(ns))

\* count builds the same generators as parse and collects each of them
countHangs(t, c) ==
    LET h == subHelper(t, c)
        gens == actualGenerators(h.patterns, backReferencesOf(h.patterns, c), c)
    IN \E k \in 1..Len(gens) : Diverges(gens[k])

RECURSIVE ParseComboLoop(_, _, _, _)
\* the resolvedCombination behind each string of parse(t, c), for a template
\* whose generators end
ParseComboLoop(t, c, st, out) ==
    LET r == parseNext(t, c, st) IN
    IF r.yield
    THEN ParseComboLoop(t, c, [status |-> r.status, idx |-> r.idx], Append(out, r.combo))
    ELSE out

parseCombos(t, c) == ParseComboLoop(t, c, [status |-> "idle", idx |-> <<>>], <<>>)

\* mutant of count: a back reference counts like the placeholder it names
countWithBackReferences(t, c) ==
    LET h == subHelper(t, c)
        backReferences == backReferencesOf(h.patterns, c)
        gens == actualGenerators(h.patterns, backReferences, c)
        at == actualChoiceIndices(backReferences)
    IN Product([i \in 1..Len(h.patterns) |->
                  IF backReferences[i] = Null
                  THEN Len(collectValues(gens[CHOOSE k \in 1..Len(at) : at[k] = i]))
                  ELSE IF backReferences[i] < Len(gens)
                  THEN Len(collectValues(gens[backReferences[i] + 1]))
                  ELSE 1])

\* mutant of count: the size of a range by the closed form floor((end-start)/step)+1
countClosedForm(t, c) ==
    LET h == subHelper(t, c)
        gens == actualGenerators(h.patterns, backReferencesOf(h.patterns, c), c)
    IN Product([k \in 1..Len(gens) |->
                  IF gens[k].kind = "range"
                  THEN IF gens[k].start > gens[k].end THEN 0
                       ELSE FloorDiv(gens[k].end - gens[k].start, gens[k].step) + 1
                  ELSE Len(gens[k].options)])

\* count(t, c), when it returns
count(t, c) ==
    LET h == subHelper(t, c)
        gens == actualGenerators(h.patterns, backReferencesOf(h.patterns, c), c)
    IN Product([k \in 1..Len(gens) |-> Len(collectValues(gens[k]))])

NoChoice == -1  \* inputChoices[k] === undefined: position k is drawn at random

\* the text of the value undefined in a string concatenation
UndefinedText == <<"u", "n", "d", "e", "f", "i", "n", "e", "d">>

\* choose: the scan for the referenced placeholder runs over all positions
chooseScanLimit(i, n) == n

\* choose(t, c) collects every generator when it is called
chooseHangs(t, c) == countHangs(t, c)

\* mutant of selectValue: the index taken one too far
selectValueNext(values, choiceIndex) ==
    IF choiceIndex + 1 >= 0 /\ choiceIndex + 1 < Len(values)
    THEN values[choiceIndex + 2]
    ELSE UndefinedText

\* values[choiceIndex]: undefined outside the array
selectValue(values, choiceIndex) ==
    IF choiceIndex >= 0 /\ choiceIndex < Len(values)
    THEN values[choiceIndex + 1]
    ELSE UndefinedText

\* mutant of choosePick: every placeholder, back references included, takes
\* the argument at its own position
choosePickByPosition(t, c, choiceIndex) ==
    LET h == subHelper(t, c)
        backReferences == backReferencesOf(h.patterns, c)
        gens == actualGenerators(h.patterns, backReferences, c)
        at == actualChoiceIndices(backReferences)
        n == Len(backReferences)
        selected == [k \in 1..Len(gens) |->
                        selectValue(collectValues(gens[k]),
                                    IF at[k] <= Len(choiceIndex)
                                    THEN choiceIndex[at[k]] ELSE 0)]
        placed == placeActual(backReferences, selected)
        resolvedValues ==
            [i \in 1..n |->
                IF backReferences[i] = Null THEN placed[i]
                ELSE LET j == FindRef(backReferences, 1, n, 0, backReferences[i])
                     IN IF j # 0 THEN placed[j]
                        ELSE fallbackText(c, backReferences[i])]
    IN buildResult(h.stringParts, resolvedValues)

\* the picker's result for the choice indices choiceIndex (one per actual
\* placeholder, given or drawn); values[choiceIndex] outside the array is undefined
choosePick(t, c, choiceIndex) ==
    LET h == subHelper(t, c)
        backReferences == backReferencesOf(h.patterns, c)
        gens == actualGenerators(h.patterns, backReferences, c)
        n == Len(backReferences)
        selected == [k \in 1..Len(gens) |->
                        selectValue(collectValues(gens[k]), choiceIndex[k])]
        placed == placeActual(backReferences, selected)
        resolvedValues ==
            [i \in 1..n |->
                IF backReferences[i] = Null THEN placed[i]
                ELSE LET j == FindRef(backReferences, 1, chooseScanLimit(i, n), 0,
                                      backReferences[i])
                     IN IF j # 0 THEN placed[j]
                        ELSE fallbackText(c, backReferences[i])]
    IN buildResult(h.stringParts, resolvedValues)

\* the cardinalities of the actual placeholders of t
actualLens(t, c) ==
    LET h == subHelper(t, c)
        gens == actualGenerators(h.patterns, backReferencesOf(h.patterns, c), c)
    IN [k \in 1..Len(gens) |-> Len(collectValues(gens[k]))]

Max(a, b) == IF a >= b THEN a ELSE b

RECURSIVE MaxOf(_)
MaxOf(ns) == IF ns = <<>> THEN 0 ELSE Max(Head(ns), MaxOf(Tail(ns)))

\* the argument lists of the picker: per actual placeholder undefined, an
\* index of its values, or the first index past them
InputChoices(lens) ==
    {s \in [1..Len(lens) -> NoChoice..MaxOf(lens)] : \A k \in 1..Len(lens) : s[k] <= lens[k]}

\* the choice indices the picker may use for inputChoices: the given one, or
\* Math.floor(Math.random() * values.length)
ChoiceIndices(lens, inputChoices) ==
    {ch \in [1..Len(lens) -> 0..MaxOf(lens)] :
        \A k \in 1..Len(lens) :
            IF inputChoices[k] # NoChoice THEN ch[k] = inputChoices[k]
            ELSE ch[k] <= Max(lens[k] - 1, 0)}

(***************************************************************************)
(* compile.                                                                *)
(***************************************************************************)
\* an expression that is neither a Generator nor an array
StaticValue(value) == [kind |-> "value", value |-> value]

\* expr instanceof Generator ? expr : Array.isArray(expr) ? expr
\*                                  : new StaticGenerator(expr)
compileGenerators(expressions) ==
    [k \in 1..Len(expressions) |->
        IF expressions[k].kind = "range" \/ expressions[k].kind = "choices"
        THEN expressions[k]
        ELSE StaticGenerator(expressions[k].value)]

\* one call of next() on the iterator of compile(strs, ...expressions)
compileNext(strs, expressions, st) ==
    LET gens == compileGenerators(expressions)
        r == cartesianProduct(gens, st)
    IN IF r.yield
       THEN LET combination == Combination(gens, r.idx)
            IN [status |-> r.status, idx |-> r.idx, yield |-> TRUE,
                combo |-> combination,
                result |-> buildResult(strs, combination)]
       ELSE [status |-> r.status, idx |-> r.idx, yield |-> FALSE,
             combo |-> <<>>, result |-> <<>>]

RECURSIVE CompileLoop(_, _, _, _)
\* for (const s of compile(strs, ...expressions)) outs.push(s), for
\* expressions that end
CompileLoop(strs, expressions, st, outs) ==
    LET r == compileNext(strs, expressions, st) IN
    IF r.yield
    THEN CompileLoop(strs, expressions, [status |-> r.status, idx |-> r.idx],
                     Append(outs, r.result))
    ELSE outs

\* [...compile(strs, ...expressions)]
compileAll(strs, expressions) ==
    CompileLoop(strs, expressions, [status |-> "idle", idx |-> <<>>], <<>>)

(***************************************************************************)
(* Inputs.                                                                 *)
(***************************************************************************)
\* the defaults of parse, count and choose
DefaultConfig ==
    [patternStart |-> <<"{">>, patternEnd |-> <<"}">>, separatorRange |-> ",",
     separatorChoices |-> "|", backReferenceMarker |-> "$"]

\* a configuration that changes every option
CustomConfig ==
    [patternStart |-> <<"<">>, patternEnd |-> <<">">>, separatorRange |-> ";",
     separatorChoices |-> "/", backReferenceMarker |-> "@"]

Configs == {DefaultConfig, CustomConfig}

\* a configuration with delimiters of two characters
PercentConfig ==
    [patternStart |-> <<"<", "%">>, patternEnd |-> <<"%", ">">>, separatorRange |-> ",",
     separatorChoices |-> "|", backReferenceMarker |-> "$"]

\* the strings handed to the tokenizer alone: at most n characters, each a
\* character of a delimiter of c or the letter a
TokenInputs(c, n) ==
    LET alphabet == {c.patternStart[k] : k \in 1..Len(c.patternStart)}
                       \cup {c.patternEnd[k] : k \in 1..Len(c.patternEnd)} \cup {"a"}
    IN UNION {[1..k -> alphabet] : k \in 0..n}

\* the pieces templates are made of, written in the syntax of configuration c
Pieces(c) ==
    LET S == c.patternStart
        E == c.patternEnd
        R == <<c.separatorRange>>
        C == <<c.separatorChoices>>
        M == <<c.backReferenceMarker>>
    IN { M, S, E,                                     \* literal text: a stray marker or delimiter
         S \o <<"a">> \o C \o <<"b">> \o E,           \* a choice of two
         S \o <<"1">> \o R \o <<"2">> \o E,           \* the range 1, 2
         S \o <<"1">> \o R \o <<"4">> \o R \o <<"2">> \o E,  \* the range 1, 3, 4
         S \o <<"2">> \o R \o <<"1">> \o E,           \* a range with no value
         S \o M \o <<"0">> \o E,                      \* back references
         S \o M \o <<"1">> \o E }

RECURSIVE Templates(_, _)
\* the concatenations of at most n pieces
Templates(c, n) ==
    IF n = 0 THEN {<<>>}
    ELSE LET shorter == Templates(c, n - 1)
         IN shorter \cup {t \o p : t \in shorter, p \in Pieces(c)}

\* the marker that configuration c does not use
OtherMarker(c) == IF c.backReferenceMarker = "$" THEN "@" ELSE "$"

\* pieces with whitespace, markers inside choices and ranges that run
\* backwards or do not advance, written in the syntax of configuration c
MarkupPieces(c) ==
    LET S == c.patternStart
        E == c.patternEnd
        R == <<c.separatorRange>>
        C == <<c.separatorChoices>>
        M == <<c.backReferenceMarker>>
        O == <<OtherMarker(c)>>
    IN { M,                                               \* a marker in literal text
         S \o <<"a">> \o C \o <<"b">> \o E,               \* a choice of two
         S \o <<"a", " ">> \o C \o <<"b">> \o E,          \* ... with whitespace in an option
         S \o M \o <<"1">> \o C \o M \o <<"0">> \o E,      \* a choice of marker texts
         S \o M \o <<"0">> \o E,                          \* a back reference
         S \o <<" ">> \o M \o <<"0", " ">> \o E,           \* ... with whitespace around it
         S \o O \o <<"0">> \o E,                          \* the other marker and digits
         S \o <<"2">> \o R \o <<"0">> \o R \o <<"3">> \o E,  \* a range with start > end
         S \o <<"1">> \o R \o <<"2">> \o R \o <<"0">> \o E } \* a range with step 0

\* placeholders at and around the shape of a range, written in the syntax
\* of configuration c
ShapePieces(c) ==
    LET S == c.patternStart
        E == c.patternEnd
        R == <<c.separatorRange>>
        C == <<c.separatorChoices>>
        M == <<c.backReferenceMarker>>
    IN { S \o <<"1">> \o R \o <<"2">> \o R \o <<"3">> \o R \o <<"4">> \o E,  \* four parts
         S \o R \o <<"1">> \o R \o <<"3">> \o E,              \* an empty first part
         S \o <<"1">> \o R \o <<"a">> \o E,                   \* a part that is no number
         S \o <<"1">> \o R \o E,                              \* one part and a separator
         S \o <<"1">> \o C \o <<"2">> \o R \o <<"3">> \o E,   \* a choice of two with a range separator
         S \o <<"1">> \o R \o <<"3">> \o R \o E,              \* the range 1, 2, 3 and a separator
         S \o <<"1">> \o R \o <<"4">> \o R \o <<"2">> \o E,   \* the range 1, 3, 4: the end is off the steps
         S \o <<"1">> \o R \o <<" ", "5">> \o R \o <<"2">> \o E,  \* the range 1, 3, 5, with whitespace
         S \o M \o <<"0">> \o E }                             \* a back reference

RECURSIVE ShapeTemplates(_, _)
\* the concatenations of at most n pieces of ShapePieces
ShapeTemplates(c, n) ==
    IF n = 0 THEN {<<>>}
    ELSE LET shorter == ShapeTemplates(c, n - 1)
         IN shorter \cup {t \o p : t \in shorter, p \in ShapePieces(c)}

RECURSIVE MarkupTemplates(_, _)
\* the concatenations of at most n pieces of MarkupPieces
MarkupTemplates(c, n) ==
    IF n = 0 THEN {<<>>}
    ELSE LET shorter == MarkupTemplates(c, n - 1)
         IN shorter \cup {t \o p : t \in shorter, p \in MarkupPieces(c)}

\* the expressions handed to compile
Expressions ==
    { ArrayGen(<<>>),
      ArrayGen(<<<<"A">>, <<"B">>>>),
      ArrayGen(<<<<"1">>, <<"2">>, <<"3">>>>),
      range(1, 4, 2, TRUE),
      StaticValue(<<"s">>) }

ExpressionLists == UNION {[1..n -> Expressions] : n \in 0..MaxExprs}

\* the literal parts handed to compile with n expressions
StringParts(n) == {[i \in 1..(n + 1) |-> sep] : sep \in {<<>>, <<"-">>}}

RangeArgs ==
    [start : -1..MaxRange, end : -1..MaxRange, step : -1..MaxStep,
     includeEnd : BOOLEAN]

NoRangeArgs == [start |-> 0, end |-> 0, step |-> 1, includeEnd |-> TRUE]

NoResult == [status |-> "none", value |-> 0]

NoPick == [status |-> "none", inputChoices |-> <<>>, value |-> <<>>]

NoValues == [status |-> "none", values |-> <<>>]

NewIterator == [status |-> "idle", idx |-> <<>>]

\* subHelper has not been called yet
NoTokens == [status |-> "none", patterns |-> <<>>, stringParts |-> <<>>]

\* no iteration has been given up or finished yet
NoRun == [status |-> "none", outputs |-> <<>>]

\* mutant of freshIterator: the second iteration goes on where the first stopped
resumeIterator(st) == st

\* obj[Symbol.iterator]() called again: a new generator function call, which
\* shares nothing with the iterator st obtained before
freshIterator(st) == NewIterator

\* mutant of ownState: the position is kept in the object the iterators
\* come from
ownStateShared(own, other) == other

\* the state a generator function call advances from: its own locals
\* (allValues, current and the loop positions), whatever the other
\* iterator of the same object has done
ownState(own, other) == own

Idle ==
    /\ cnt = NoResult
    /\ it = NewIterator
    /\ outputs = <<>>
    /\ combos = <<>>
    /\ picked = NoPick
    /\ rangeOut = NoValues
    /\ firstRun = NoRun
    /\ tokens = NoTokens
    /\ it2 = NewIterator
    /\ outputs2 = <<>>

\* the templates handed to parse, count and choose under configuration c
TemplatesFor(c) ==
    Templates(c, IF c = DefaultConfig THEN MaxPieces ELSE MaxCustomPieces)

\* a run that counts and enumerates a template, or enumerates a compile call
Init ==
    /\ Idle
    /\ rangeArgs = NoRangeArgs
    /\ \/ /\ mode = "parse"
          /\ cfg \in Configs
          /\ template \in TemplatesFor(cfg)
          /\ strings = <<<<>>>>
          /\ exprs = <<>>
       \/ /\ mode = "compile"
          /\ exprs \in ExpressionLists
          /\ strings \in StringParts(Len(exprs))
          /\ cfg = DefaultConfig
          /\ template = <<>>

\* a run that picks one string of a template
InitChoose ==
    /\ Idle
    /\ rangeArgs = NoRangeArgs
    /\ mode = "choose"
    /\ cfg \in Configs
    /\ template \in Templates(cfg, MaxChoosePieces)
    /\ strings = <<<<>>>>
    /\ exprs = <<>>

\* a run of parse and count, or of choose, on a template of MarkupTemplates
InitMarkup ==
    /\ Idle
    /\ rangeArgs = NoRangeArgs
    /\ mode \in {"parse", "choose"}
    /\ cfg \in Configs
    /\ template \in MarkupTemplates(cfg, MaxMarkupPieces)
    /\ strings = <<<<>>>>
    /\ exprs = <<>>

\* a run of parse and count, or of choose, on placeholders near the range shape
InitShapes ==
    /\ Idle
    /\ rangeArgs = NoRangeArgs
    /\ mode \in {"parse", "choose"}
    /\ cfg \in Configs
    /\ template \in ShapeTemplates(cfg, MaxShapePieces)
    /\ strings = <<<<>>>>
    /\ exprs = <<>>

\* a run that iterates the object of parse or compile twice
InitRestart ==
    /\ Idle
    /\ rangeArgs = NoRangeArgs
    /\ \/ /\ mode = "parse"
          /\ cfg \in Configs
          /\ template \in Templates(cfg, MaxRestartPieces)
          /\ strings = <<<<>>>>
          /\ exprs = <<>>
       \/ /\ mode = "compile"
          /\ exprs \in UNION {[1..n -> Expressions] : n \in 0..MaxRestartExprs}
          /\ strings \in StringParts(Len(exprs))
          /\ cfg = DefaultConfig
          /\ template = <<>>

\* a run of two iterators obtained from the same object of parse or compile
InitInterleave ==
    /\ Idle
    /\ rangeArgs = NoRangeArgs
    /\ \/ /\ mode = "parse"
          /\ cfg = DefaultConfig
          /\ template \in Templates(cfg, MaxInterleavePieces)
          /\ strings = <<<<>>>>
          /\ exprs = <<>>
       \/ /\ mode = "compile"
          /\ exprs \in UNION {[1..n -> Expressions] : n \in 0..MaxInterleaveExprs}
          /\ strings \in StringParts(Len(exprs))
          /\ cfg = DefaultConfig
          /\ template = <<>>

\* a run of the tokenizer alone
InitTokenize ==
    /\ Idle
    /\ rangeArgs = NoRangeArgs
    /\ mode = "tokenize"
    /\ cfg \in {DefaultConfig, PercentConfig}
    /\ template \in TokenInputs(cfg, MaxTokenLen)
    /\ strings = <<<<>>>>
    /\ exprs = <<>>

\* a run that collects one range
InitRange ==
    /\ Idle
    /\ mode = "range"
    /\ rangeArgs \in RangeArgs
    /\ cfg = DefaultConfig
    /\ template = <<>>
    /\ strings = <<<<>>>>
    /\ exprs = <<>>

(***************************************************************************)
(* Actions.                                                                *)
(***************************************************************************)
\* [...range(start, end, step, includeEnd).values()]
RangeCall ==
    /\ mode = "range"
    /\ rangeOut.status = "none"
    /\ rangeOut' =
         IF RangeDiverges(rangeArgs.start, rangeArgs.end, rangeArgs.step)
         THEN [status |-> "hung", values |-> <<>>]
         ELSE [status |-> "ret",
               values |-> RangeValues(rangeArgs.start, rangeArgs.end,
                                      rangeArgs.step, rangeArgs.includeEnd)]
    /\ UNCHANGED <<it2, outputs2, tokens, firstRun, mode, template, cfg, strings, exprs, rangeArgs,
                   cnt, it, outputs, combos, picked>>

\* count(template, cfg), called once the enumeration is over
CountCall ==
    /\ mode = "parse"
    /\ it.status \in {"done", "hung"}
    /\ cnt.status = "none"
    /\ cnt' = IF countHangs(template, cfg)
              THEN [status |-> "hung", value |-> 0]
              ELSE [status |-> "ret", value |-> count(template, cfg)]
    /\ UNCHANGED <<it2, outputs2, tokens, firstRun, mode, template, cfg, strings, exprs, rangeArgs, rangeOut,
                   it, outputs, combos, picked>>

\* the iterator moves on: its new state, and the yielded string if any
Advance(r) ==
    /\ it' = [status |-> r.status, idx |-> r.idx]
    /\ outputs' = IF r.yield THEN Append(outputs, r.result) ELSE outputs
    /\ combos' = IF r.yield THEN Append(combos, r.combo) ELSE combos

\* next() on the iterator of parse(template, cfg)
ParseNext ==
    /\ mode = "parse"
    /\ it.status \in {"idle", "running"}
    /\ Len(outputs) < MaxYield \/ ~countHangs(template, cfg)
    /\ Advance(parseNext(template, cfg, it))
    /\ UNCHANGED <<it2, outputs2, tokens, firstRun, mode, template, cfg, strings, exprs, rangeArgs, rangeOut,
                   cnt, picked>>

\* next() on the iterator of compile(strings, ...exprs)
CompileNext ==
    /\ mode = "compile"
    /\ it.status \in {"idle", "running"}
    /\ Advance(compileNext(strings, exprs, it))
    /\ UNCHANGED <<it2, outputs2, tokens, firstRun, mode, template, cfg, strings, exprs, rangeArgs, rangeOut,
                   cnt, picked>>

\* choose(template, cfg)(...inputChoices)
ChooseCall ==
    /\ mode = "choose"
    /\ picked.status = "none"
    /\ IF chooseHangs(template, cfg)
       THEN picked' = [status |-> "hung", inputChoices |-> <<>>, value |-> <<>>]
       ELSE \E inputChoices \in InputChoices(actualLens(template, cfg)) :
              \E choiceIndex \in ChoiceIndices(actualLens(template, cfg), inputChoices) :
                picked' = [status |-> "ret", inputChoices |-> inputChoices,
                           value |-> choosePick(template, cfg, choiceIndex)]
    /\ UNCHANGED <<it2, outputs2, tokens, firstRun, mode, template, cfg, strings, exprs, rangeArgs, rangeOut,
                   cnt, it, outputs, combos>>

\* the first iteration is given up (break) or has finished, and the same
\* object is iterated again
Restart ==
    /\ mode \in {"parse", "compile"}
    /\ firstRun.status = "none"
    /\ it.status \in {"running", "done"}
    /\ firstRun' = [status |-> IF it.status = "done" THEN "complete" ELSE "abandoned",
                    outputs |-> outputs]
    /\ it' = freshIterator(it)
    /\ outputs' = <<>>
    /\ combos' = <<>>
    /\ UNCHANGED <<it2, outputs2, tokens, mode, template, cfg, strings, exprs, rangeArgs, rangeOut,
                   cnt, picked>>

\* subHelper(template, cfg)
TokenizeCall ==
    /\ mode = "tokenize"
    /\ tokens.status = "none"
    /\ tokens' = [status |-> "ret",
                  patterns |-> subHelper(template, cfg).patterns,
                  stringParts |-> subHelper(template, cfg).stringParts]
    /\ UNCHANGED <<it2, outputs2, firstRun, mode, template, cfg, strings, exprs,
                   rangeArgs, rangeOut, cnt, it, outputs, combos, picked>>

\* next() on the second iterator of the same parse(template, cfg) or
\* compile(strings, ...exprs)
SecondNext ==
    /\ mode \in {"parse", "compile"}
    /\ it2.status \in {"idle", "running"}
    /\ LET st == ownState(it2, it)
           r == IF mode = "parse" THEN parseNext(template, cfg, st)
                ELSE compileNext(strings, exprs, st)
       IN /\ it2' = [status |-> r.status, idx |-> r.idx]
          /\ outputs2' = IF r.yield THEN Append(outputs2, r.result) ELSE outputs2
    /\ UNCHANGED <<tokens, firstRun, mode, template, cfg, strings, exprs, rangeArgs,
                   rangeOut, cnt, it, outputs, combos, picked>>

Next == CountCall \/ ParseNext \/ CompileNext

Spec == Init /\ [][Next]_vars

NextChoose == ChooseCall
SpecChoose == InitChoose /\ [][NextChoose]_vars

NextMarkup == CountCall \/ ParseNext \/ ChooseCall
SpecMarkup == InitMarkup /\ [][NextMarkup]_vars

NextRestart == ParseNext \/ CompileNext \/ Restart
SpecRestart == InitRestart /\ [][NextRestart]_vars

NextShapes == CountCall \/ ParseNext \/ ChooseCall
SpecShapes == InitShapes /\ [][NextShapes]_vars

NextInterleave == ParseNext \/ CompileNext \/ SecondNext
SpecInterleave == InitInterleave /\ [][NextInterleave]_vars

NextTokenize == TokenizeCall
SpecTokenize == InitTokenize /\ [][NextTokenize]_vars

NextRange == RangeCall
SpecRange == InitRange /\ [][NextRange]_vars

(***************************************************************************)
(* Vocabulary of the claims.  The claims about the strings of an           *)
(* enumeration are stated of the finished enumeration: it.status = "done". *)
(***************************************************************************)
Done == it.status = "done"

\* the number of actual placeholders before position i
ActualsBefore(refs, i) == Cardinality({m \in 1..(i - 1) : refs[m] = Null})

\* the position of the actual placeholder with actual-order index k (0-based)
ActualPosition(refs, k) ==
    CHOOSE a \in 1..Len(refs) : refs[a] = Null /\ ActualsBefore(refs, a) = k

\* the lengths of the value sequences vals
Lengths(vals) == [j \in 1..Len(vals) |-> Len(vals[j])]

\* n_{j+1} * ... * n_L
ProductAfter(lens, j) == Product(SubSeq(lens, j + 1, Len(lens)))

\* the index (0-based) of the value of placeholder j at odometer position p (0-based)
OdometerIndex(lens, p, j) == (p \div ProductAfter(lens, j)) % lens[j]

\* the values the odometer rule gives at position p (0-based) for the value
\* sequences vals
OdometerTuple(vals, p) ==
    [j \in 1..Len(vals) |-> vals[j][OdometerIndex(Lengths(vals), p, j) + 1]]

\* the value sequences of generators that end
ValuesOf(gens) == [j \in 1..Len(gens) |-> collectValues(gens[j])]

(***************************************************************************)
(* C1: when count(template, cfg) has returned and the iteration of         *)
(* parse(template, cfg) has ended, the count is the number of strings the  *)
(* iteration produced.                                                     *)
(***************************************************************************)
C1_CountEqualsEnumeration ==
    (mode = "parse" /\ cnt.status = "ret" /\ Done) => cnt.value = Len(outputs)

\* a template with a back reference and several outputs, counted and enumerated
C1_Witness ==
    /\ mode = "parse" /\ cnt.status = "ret" /\ Done
    /\ \E i \in 1..Len(subHelper(template, cfg).patterns) :
          isBackReference(subHelper(template, cfg).patterns[i], cfg.backReferenceMarker)
    /\ Len(outputs) >= 3

(***************************************************************************)
(* C2: compile and parse enumerate in odometer order, the rightmost        *)
(* placeholder varying fastest: the p-th output (0-based) carries for      *)
(* placeholder j the value at index (p div (n_{j+1}*...*n_L)) mod n_j.     *)
(***************************************************************************)
C2_OdometerOrder ==
    /\ (mode = "compile" /\ Done) =>
         LET vals == ValuesOf(compileGenerators(exprs)) IN
         \A p \in 1..Len(outputs) :
            outputs[p] = buildResult(strings, OdometerTuple(vals, p - 1))
    /\ (mode = "parse" /\ Done) =>
         LET h == subHelper(template, cfg)
             refs == backReferencesOf(h.patterns, cfg)
             vals == ValuesOf(actualGenerators(h.patterns, refs, cfg))
         IN \A p \in 1..Len(outputs) :
               outputs[p] = buildResult(h.stringParts,
                               resolveParse(refs, OdometerTuple(vals, p - 1), cfg))

\* compile over generators of 2 and 3 values, enumerated to the end
C2_Witness ==
    /\ mode = "compile" /\ Done
    /\ Lengths(ValuesOf(compileGenerators(exprs))) = <<2, 3>>
    /\ Len(outputs) = 6

(***************************************************************************)
(* C3: the cartesian expansion over L sequences yields as many tuples as   *)
(* the product of their lengths: one empty tuple for L = 0, none when a    *)
(* sequence is empty.                                                      *)
(***************************************************************************)
C3_ProductOfLengths ==
    (mode = "compile" /\ Done) =>
        /\ Len(combos) = Product(Lengths(ValuesOf(compileGenerators(exprs))))
        /\ Len(outputs) = Len(combos)
        /\ \A p \in 1..Len(combos) : Len(combos[p]) = Len(exprs)
        /\ Len(exprs) = 0 => outputs = <<strings[1]>>

\* three sequences, none empty, enumerated to the end
C3_Witness ==
    /\ mode = "compile" /\ Done
    /\ Len(exprs) = 3
    /\ Len(outputs) >= 8

(***************************************************************************)
(* C4: in every string parse produces, a back reference with index k that  *)
(* stands after the k-th actual placeholder carries the value that         *)
(* placeholder carries in the same string; k counts actual placeholders.   *)
(***************************************************************************)
C4_BackReferenceValue ==
    (mode = "parse" /\ Done) =>
        LET h == subHelper(template, cfg)
            refs == backReferencesOf(h.patterns, cfg)
        IN \A p \in 1..Len(outputs) :
            /\ outputs[p] = buildResult(h.stringParts, combos[p])
            /\ \A i \in 1..Len(refs) :
                 (refs[i] # Null /\ refs[i] < ActualsBefore(refs, i))
                    => combos[p][i] = combos[p][ActualPosition(refs, refs[i])]

\* a resolved back reference whose referent is not at the raw position k
C4_Witness ==
    /\ mode = "parse" /\ Done /\ Len(outputs) >= 2
    /\ LET refs == backReferencesOf(subHelper(template, cfg).patterns, cfg)
       IN \E i \in 1..Len(refs) :
            /\ refs[i] # Null /\ refs[i] < ActualsBefore(refs, i)
            /\ ActualPosition(refs, refs[i]) # refs[i] + 1

(***************************************************************************)
(* C5 (as claimed): in parse a back reference whose index is not below the *)
(* number of actual placeholders before it is rendered as the literal text *)
(* of the placeholder in every output, and the outputs are as many and in  *)
(* the order the actual placeholders alone give.                           *)
(***************************************************************************)
C5_UnresolvedIsLiteral ==
    (mode = "parse" /\ Done) =>
        LET h == subHelper(template, cfg)
            refs == backReferencesOf(h.patterns, cfg)
            vals == ValuesOf(actualGenerators(h.patterns, refs, cfg))
            at == actualChoiceIndices(refs)
        IN /\ Len(outputs) = Product(Lengths(vals))
           /\ \A p \in 1..Len(outputs) :
                /\ \A k \in 1..Len(at) :
                     combos[p][at[k]] = OdometerTuple(vals, p - 1)[k]
                /\ \A i \in 1..Len(refs) :
                     (refs[i] # Null /\ refs[i] >= ActualsBefore(refs, i))
                        => combos[p][i] = cfg.patternStart \o h.patterns[i] \o cfg.patternEnd

(***************************************************************************)
(* C6 (as claimed): with every index omitted or within the cardinality of  *)
(* its placeholder, the string choose returns is one of the strings parse  *)
(* produces for the same template and configuration.                       *)
(***************************************************************************)
C6_PickIsMember ==
    (mode = "choose" /\ picked.status = "ret") =>
        LET lens == actualLens(template, cfg)
            all == parseAll(template, cfg)
        IN (\A k \in 1..Len(lens) :
               picked.inputChoices[k] = NoChoice \/ picked.inputChoices[k] < lens[k])
             => \E p \in 1..Len(all) : all[p] = picked.value

(***************************************************************************)
(* C7: without back references and with explicit in-range indices, choose  *)
(* returns the literal segments interleaved with the chosen values, the    *)
(* string parse produces at odometer position sum_j i_j*n_{j+1}*...*n_k;   *)
(* every string parse produces is returned for the indices of its position.*)
(***************************************************************************)
C7_ExplicitPick ==
    mode = "choose" =>
        LET h == subHelper(template, cfg)
            refs == backReferencesOf(h.patterns, cfg)
            vals == ValuesOf(actualGenerators(h.patterns, refs, cfg))
            lens == Lengths(vals)
            all == parseAll(template, cfg)
            position(ix) ==
                LET RECURSIVE Sum(_)
                    Sum(j) == IF j > Len(lens) THEN 0
                              ELSE ix[j] * ProductAfter(lens, j) + Sum(j + 1)
                IN Sum(1)
        IN (\A i \in 1..Len(refs) : refs[i] = Null) =>
             /\ (/\ picked.status = "ret"
                 /\ \A k \in 1..Len(lens) :
                       picked.inputChoices[k] # NoChoice /\ picked.inputChoices[k] < lens[k])
                  => /\ picked.value =
                          buildResult(h.stringParts,
                             [k \in 1..Len(lens) |-> vals[k][picked.inputChoices[k] + 1]])
                     /\ picked.value = all[position(picked.inputChoices) + 1]
             /\ picked.status = "none" =>
                  \A p \in 1..Len(all) :
                     choosePick(template, cfg,
                                [k \in 1..Len(lens) |-> OdometerIndex(lens, p - 1, k)]) = all[p]

\* two actual placeholders, the last value of each picked by explicit indices
C7_Witness ==
    /\ mode = "choose" /\ picked.status = "ret"
    /\ LET refs == backReferencesOf(subHelper(template, cfg).patterns, cfg)
           lens == actualLens(template, cfg)
       IN /\ \A i \in 1..Len(refs) : refs[i] = Null
          /\ lens = <<2, 3>>
          /\ picked.inputChoices = <<1, 2>>

C9_NoPlaceholder ==
    (mode = "parse" /\ subHelper(template, cfg).patterns = <<>>) =>
        /\ it.status # "hung"
        /\ Done => outputs = <<template>>
        /\ cnt.status # "hung"
        /\ cnt.status = "ret" => cnt.value = 1

\* a template of delimiters and markers only, counted and enumerated
C9_Witness ==
    /\ mode = "parse" /\ Done /\ cnt.status = "ret"
    /\ subHelper(template, cfg).patterns = <<>>
    /\ Len(template) >= 3
    /\ outputs = <<template>>

(***************************************************************************)
(* C10: whitespace inside a range placeholder and a trailing run of range  *)
(* separators change nothing: with every placeholder {a,b} of the template *)
(* rewritten as { a, b }, as {a, b} or as {a,b, } the strings parse yields *)
(* and the count are the same.                                             *)
(***************************************************************************)
\* a placeholder of the form a,b with numeric a and b
IsPlainRange(pattern, c) ==
    LET parts == Split(pattern, c.separatorRange)
    IN Len(parts) = 2 /\ isNumber(parts[1]) /\ isNumber(parts[2])

\* the three rewritings of a,b
WsVariant(v, pattern, c) ==
    LET parts == Split(pattern, c.separatorRange)
        R == <<c.separatorRange>>
    IN IF v = 1 THEN <<" ">> \o parts[1] \o R \o <<" ">> \o parts[2] \o <<" ">>
       ELSE IF v = 2 THEN parts[1] \o R \o <<" ">> \o parts[2]
       ELSE parts[1] \o R \o parts[2] \o R \o <<" ">>

\* the template t with every placeholder a,b rewritten the v-th way
VariantTemplate(t, c, v) ==
    LET h == subHelper(t, c)
    IN buildResult(h.stringParts,
          [i \in 1..Len(h.patterns) |->
              c.patternStart
                \o (IF IsPlainRange(h.patterns[i], c)
                    THEN WsVariant(v, h.patterns[i], c) ELSE h.patterns[i])
                \o c.patternEnd])

C10_RangeWhitespace ==
    (/\ mode = "parse" /\ Done /\ cnt.status = "ret"
     /\ \E i \in 1..Len(subHelper(template, cfg).patterns) :
           IsPlainRange(subHelper(template, cfg).patterns[i], cfg)) =>
        \A v \in 1..3 :
            LET t == VariantTemplate(template, cfg, v)
            IN /\ parseAll(t, cfg) = outputs
               /\ count(t, cfg) = cnt.value

\* a template with a range placeholder a,b that yields several strings
C10_Witness ==
    /\ mode = "parse" /\ Done /\ cnt.status = "ret"
    /\ Len(outputs) >= 2
    /\ \E i \in 1..Len(subHelper(template, cfg).patterns) :
          IsPlainRange(subHelper(template, cfg).patterns[i], cfg)
    /\ VariantTemplate(template, cfg, 1) # template

(***************************************************************************)
(* C11: the options of a choice placeholder are the substrings of its      *)
(* content between choice separators, whitespace included; joined with the *)
(* separator they give back the content, each output carries the option    *)
(* unchanged, and the same choice written without its whitespace gives     *)
(* different outputs.                                                      *)
(***************************************************************************)
\* the k-th (from 1) position of sep in s
NthPos(s, sep, k) ==
    CHOOSE i \in 1..Len(s) :
        s[i] = sep /\ Cardinality({j \in 1..(i - 1) : s[j] = sep}) = k - 1

\* the substrings of s between the occurrences of sep
Between(s, sep) ==
    LET n == Cardinality({i \in 1..Len(s) : s[i] = sep})
        cut(m) == IF m = 0 THEN 0 ELSE IF m = n + 1 THEN Len(s) + 1
                  ELSE NthPos(s, sep, m)
    IN [m \in 1..(n + 1) |-> SubSeq(s, cut(m - 1) + 1, cut(m) - 1)]

RECURSIVE Join(_, _)
Join(parts, sep) ==
    IF Len(parts) = 1 THEN parts[1]
    ELSE parts[1] \o <<sep>> \o Join(Tail(parts), sep)

\* the template t with the content of its i-th placeholder replaced
ReplacePattern(t, c, i, content) ==
    LET h == subHelper(t, c)
    IN buildResult(h.stringParts,
          [j \in 1..Len(h.patterns) |->
              c.patternStart \o (IF j = i THEN content ELSE h.patterns[j])
                 \o c.patternEnd])

C11_ChoiceOptionsVerbatim ==
    (mode = "parse" /\ Done) =>
        LET h == subHelper(template, cfg)
            refs == backReferencesOf(h.patterns, cfg)
            at == actualChoiceIndices(refs)
            lens == Lengths(ValuesOf(actualGenerators(h.patterns, refs, cfg)))
        IN \A k \in 1..Len(at) :
             LET pat == h.patterns[at[k]]
                 opts == Between(pat, cfg.separatorChoices)
             IN ~isRangePattern(pat, cfg.separatorRange) =>
                  /\ Join(opts, cfg.separatorChoices) = pat
                  /\ lens[k] = Len(opts)
                  /\ \A p \in 1..Len(outputs) :
                        combos[p][at[k]] = opts[OdometerIndex(lens, p - 1, k) + 1]
                  /\ (/\ Len(outputs) >= 1 /\ Includes(pat, " ")
                      /\ ~isBackReference(RemoveWs(pat), cfg.backReferenceMarker)) =>
                        parseAll(ReplacePattern(template, cfg, at[k], RemoveWs(pat)), cfg)
                           # outputs

\* a choice with a blank after its first option, enumerated: "a " and "b"
C11_Witness ==
    /\ mode = "parse" /\ Done
    /\ LET h == subHelper(template, cfg)
       IN /\ Len(h.patterns) = 1
          /\ h.patterns[1] = <<"a", " ", cfg.separatorChoices, "b">>
    /\ outputs = <<<<"a", " ">>, <<"b">>>>

(***************************************************************************)
(* C12: a marker changes the classification only of a placeholder that is  *)
(* exactly the marker followed by digits.  The text outside placeholders,  *)
(* markers included, is copied to every output; a placeholder that holds   *)
(* the marker without being marker+digits is a choice list, is counted,    *)
(* and is an actual placeholder for the indices of back references.        *)
(***************************************************************************)
\* content that is exactly the marker followed by one or more digits
ExactBackRef(pattern, marker) ==
    /\ Len(pattern) >= 2
    /\ pattern[1] = marker
    /\ \A k \in 2..Len(pattern) : IsDigit(pattern[k])

\* the placeholders among 1..(i - 1) that are not marker+digits
RankAmongActual(patterns, marker, i) ==
    Cardinality({m \in 1..(i - 1) : ~ExactBackRef(patterns[m], marker)})

C12_MarkerOnlyInExactShape ==
    (mode = "parse" /\ Done) =>
        LET h == subHelper(template, cfg)
            M == cfg.backReferenceMarker
            n == Len(h.patterns)
            actual == {i \in 1..n : ~ExactBackRef(h.patterns[i], M)}
            len(i) == IF isRangePattern(h.patterns[i], cfg.separatorRange)
                      THEN Len(collectValues(patternGenerator(h.patterns[i], cfg)))
                      ELSE Len(Between(h.patterns[i], cfg.separatorChoices))
            lens == [k \in 1..Cardinality(actual) |->
                        len(CHOOSE i \in actual :
                                RankAmongActual(h.patterns, M, i) = k - 1)]
        IN /\ template = buildResult(h.stringParts,
                            [i \in 1..n |-> cfg.patternStart \o h.patterns[i]
                                               \o cfg.patternEnd])
           /\ \A p \in 1..Len(outputs) :
                 outputs[p] = buildResult(h.stringParts, combos[p])
           /\ \A i \in actual :
                 Includes(h.patterns[i], M) =>
                    LET opts == Between(h.patterns[i], cfg.separatorChoices)
                        k == RankAmongActual(h.patterns, M, i) + 1
                    IN /\ Len(outputs) = Product(lens)
                       /\ cnt.status = "ret" => cnt.value = Product(lens)
                       /\ \A p \in 1..Len(outputs) :
                            /\ combos[p][i] = opts[OdometerIndex(lens, p - 1, k) + 1]
                            /\ \A j \in (i + 1)..n :
                                  (/\ ExactBackRef(h.patterns[j], M)
                                   /\ DigitsToNat(Tail(h.patterns[j])) = k - 1)
                                     => combos[p][j] = combos[p][i]

\* a choice between two marker texts and a back reference to it
C12_Witness ==
    /\ mode = "parse" /\ Done /\ cnt.status = "ret" /\ cnt.value = 2
    /\ LET h == subHelper(template, cfg)
           M == cfg.backReferenceMarker
       IN /\ Len(h.patterns) = 2
          /\ h.patterns[1] = <<M, "1", cfg.separatorChoices, M, "0">>
          /\ h.patterns[2] = <<M, "0">>
          /\ outputs = << <<M, "1", M, "1">>, <<M, "0", M, "0">> >>

(***************************************************************************)
(* C13: for a template without back references parse yields the strings    *)
(* compile yields, in the same order, for the segments of the tokenizer    *)
(* and, per placeholder, range(start, end, step) or the list of options.   *)
(***************************************************************************)
\* the expression a placeholder stands for
ExpressionOf(pattern, c) ==
    IF isRangePattern(pattern, c.separatorRange)
    THEN LET r == parseRangePattern(pattern, c.separatorRange)
         IN range(r[1], r[2], r[3], TRUE)
    ELSE ArrayGen(Between(pattern, c.separatorChoices))

C13_ParseIsCompile ==
    (mode = "parse" /\ Done) =>
        LET h == subHelper(template, cfg)
        IN (\A i \in 1..Len(h.patterns) :
               ~ExactBackRef(h.patterns[i], cfg.backReferenceMarker))
             => outputs = compileAll(h.stringParts,
                             [i \in 1..Len(h.patterns) |->
                                 ExpressionOf(h.patterns[i], cfg)])

\* a choice and a range with text between them: four strings
C13_Witness ==
    /\ mode = "parse" /\ Done
    /\ LET h == subHelper(template, cfg)
       IN /\ Len(h.patterns) = 2
          /\ h.patterns[1] = <<"a", cfg.separatorChoices, "b">>
          /\ h.patterns[2] = <<"1", cfg.separatorRange, "2">>
          /\ h.stringParts[2] # <<>>
    /\ Len(outputs) = 4

(***************************************************************************)
(* C14: with a custom marker M a placeholder M+digits is a back reference  *)
(* and a placeholder $+digits is a choice of one option, its own text: it  *)
(* multiplies the count by 1 and is emitted unchanged, in parse, in count  *)
(* and in choose.                                                          *)
(***************************************************************************)
C14_CustomMarker ==
    LET h == subHelper(template, cfg)
        M == cfg.backReferenceMarker
        P == h.patterns
        n == Len(P)
        actual(i) == ~ExactBackRef(P[i], M)
        rank(i) == RankAmongActual(P, M, i)
        opts(i) == IF ExactBackRef(P[i], "$") THEN <<P[i]>>
                   ELSE collectValues(ExpressionOf(P[i], cfg))
        resolved(i) == \E j \in 1..(i - 1) :
                          actual(j) /\ rank(j) = DigitsToNat(Tail(P[i]))
        referent(i) == CHOOSE j \in 1..(i - 1) :
                          actual(j) /\ rank(j) = DigitsToNat(Tail(P[i]))
        nActual == Cardinality({i \in 1..n : actual(i)})
        nth(k) == CHOOSE i \in 1..n : actual(i) /\ rank(i) = k - 1
        lens == [k \in 1..nActual |-> Len(opts(nth(k)))]
    IN (M # "$") =>
         /\ (mode = "parse" /\ Done) =>
              /\ Len(outputs) = Product(lens)
              /\ cnt.status = "ret" => cnt.value = Product(lens)
              /\ \A p \in 1..Len(outputs) : \A i \in 1..n :
                    /\ actual(i) =>
                         combos[p][i] = opts(i)[OdometerIndex(lens, p - 1, rank(i) + 1) + 1]
                    /\ (~actual(i) /\ resolved(i)) =>
                         combos[p][i] = combos[p][referent(i)]
         /\ (/\ mode = "choose" /\ picked.status = "ret"
             /\ \A i \in 1..n : ~actual(i) => resolved(i)) =>
              /\ Len(picked.inputChoices) = nActual
              /\ (\A k \in 1..nActual :
                     picked.inputChoices[k] # NoChoice /\ picked.inputChoices[k] < lens[k]) =>
                   picked.value =
                      buildResult(h.stringParts,
                         [i \in 1..n |->
                             LET j == IF actual(i) THEN i ELSE referent(i)
                             IN opts(j)[picked.inputChoices[rank(j) + 1] + 1]])

\* under the marker @ the template <$0><@0>: one string, $0$0, count 1
C14_Witness ==
    /\ mode = "parse" /\ Done /\ cnt.status = "ret" /\ cnt.value = 1
    /\ cfg.backReferenceMarker = "@"
    /\ LET h == subHelper(template, cfg)
       IN h.patterns = << <<"$", "0">>, <<"@", "0">> >>
    /\ outputs = << <<"$", "0", "$", "0">> >>

(***************************************************************************)
(* C15 (as claimed): iterating range(start, end, step, includeEnd) ends    *)
(* after finitely many values for all integers start, end and step, step   *)
(* = 0 and step < 0 included.                                              *)
(***************************************************************************)
C15_RangeTerminates ==
    mode = "range" => rangeOut.status # "hung"

C17_FallbackIsMarkup ==
    LET h == subHelper(template, cfg)
        M == cfg.backReferenceMarker
        P == h.patterns
        n == Len(P)
        actual(i) == ~ExactBackRef(P[i], M)
        rank(i) == RankAmongActual(P, M, i)
        nActual == Cardinality({i \in 1..n : actual(i)})
        index(i) == DigitsToNat(Tail(P[i]))
        markup(i) == cfg.patternStart \o <<M>> \o Tail(P[i]) \o cfg.patternEnd
        nth(k) == CHOOSE i \in 1..n : actual(i) /\ rank(i) = k - 1
        opts(i) == collectValues(ExpressionOf(P[i], cfg))
    IN /\ (mode = "parse" /\ Done) =>
            \A p \in 1..Len(outputs) : \A i \in 1..n :
               (~actual(i) /\ index(i) >= rank(i)) => combos[p][i] = markup(i)
       /\ (/\ mode = "choose" /\ picked.status = "ret"
           /\ \A i \in 1..n : ~actual(i) => (index(i) < rank(i) \/ index(i) >= nActual)
           /\ Len(picked.inputChoices) = nActual
           /\ \A k \in 1..nActual :
                 /\ picked.inputChoices[k] # NoChoice
                 /\ picked.inputChoices[k] < Len(opts(nth(k)))) =>
            picked.value =
               buildResult(h.stringParts,
                  [i \in 1..n |->
                      IF actual(i) THEN opts(i)[picked.inputChoices[rank(i) + 1] + 1]
                      ELSE IF index(i) >= nActual THEN markup(i)
                      ELSE LET j == nth(index(i) + 1)
                           IN opts(j)[picked.inputChoices[rank(j) + 1] + 1]])

(***************************************************************************)
(* C18 (as claimed): choose resolves back references as parse does, only   *)
(* to actual placeholders strictly before them: for explicit indices the   *)
(* string of choose is the string parse yields at the odometer position of *)
(* the indices, with the fallback text where parse has it.                 *)
(***************************************************************************)
RECURSIVE PositionFrom(_, _, _)
\* sum over j' >= j of ix[j'] * lens[j'+1] * ... * lens[k]
PositionFrom(lens, ix, j) ==
    IF j > Len(lens) THEN 0
    ELSE ix[j] * ProductAfter(lens, j) + PositionFrom(lens, ix, j + 1)

C18_ChooseResolvesLikeParse ==
    (mode = "choose" /\ picked.status = "ret") =>
        LET lens == actualLens(template, cfg)
            all == parseAll(template, cfg)
        IN (\A k \in 1..Len(lens) :
               picked.inputChoices[k] # NoChoice /\ picked.inputChoices[k] < lens[k])
             => picked.value = all[PositionFrom(lens, picked.inputChoices, 1) + 1]

(***************************************************************************)
(* C19 (as claimed): a placeholder whose content, trimmed of leading and   *)
(* trailing whitespace, is the marker followed by digits is a back         *)
(* reference: it is not counted, takes no index of choose, and carries the *)
(* value of the actual placeholder it names, in parse, count and choose.   *)
(***************************************************************************)
C19_TrimmedBackReference ==
    LET h == subHelper(template, cfg)
        M == cfg.backReferenceMarker
        P == h.patterns
        n == Len(P)
        isRef(i) == ExactBackRef(Trim(P[i]), M)
        rank(i) == Cardinality({m \in 1..(i - 1) : ~isRef(m)})
        nActual == Cardinality({i \in 1..n : ~isRef(i)})
        nth(k) == CHOOSE i \in 1..n : ~isRef(i) /\ rank(i) = k - 1
        index(i) == DigitsToNat(Tail(Trim(P[i])))
        opts(i) == collectValues(ExpressionOf(P[i], cfg))
        lens == [k \in 1..nActual |-> Len(opts(nth(k)))]
    IN /\ (mode = "parse" /\ Done) =>
            /\ Len(outputs) = Product(lens)
            /\ cnt.status = "ret" => cnt.value = Product(lens)
            /\ \A p \in 1..Len(outputs) : \A i \in 1..n :
                  (isRef(i) /\ index(i) < rank(i)) =>
                      combos[p][i] = combos[p][nth(index(i) + 1)]
       /\ (/\ mode = "choose" /\ picked.status = "ret"
           /\ \A i \in 1..n : isRef(i) => index(i) < rank(i)) =>
            /\ Len(picked.inputChoices) = nActual
            /\ (\A k \in 1..nActual :
                   picked.inputChoices[k] # NoChoice /\ picked.inputChoices[k] < lens[k]) =>
                 picked.value =
                    buildResult(h.stringParts,
                       [i \in 1..n |->
                           LET j == IF isRef(i) THEN nth(index(i) + 1) ELSE i
                           IN opts(j)[picked.inputChoices[rank(j) + 1] + 1]])

(***************************************************************************)
(* C20 (as claimed): when start > end, range(start, end, step, includeEnd) *)
(* yields no value, for every step > 0 and either value of includeEnd.     *)
(***************************************************************************)
C20_EmptyWhenStartAfterEnd ==
    (/\ mode = "range" /\ rangeOut.status = "ret"
     /\ rangeArgs.start > rangeArgs.end /\ rangeArgs.step > 0)
        => rangeOut.values = <<>>

(***************************************************************************)
(* C21: in choose the arguments go to the actual placeholders only, in     *)
(* their order: back references take no argument, the j-th argument        *)
(* selects the value of the j-th actual placeholder, and an undefined      *)
(* argument leaves its own position to a draw among the values of that     *)
(* placeholder without moving the later arguments.                         *)
(***************************************************************************)
C21_IndicesForActualsOnly ==
    (mode = "choose" /\ picked.status = "ret") =>
        LET h == subHelper(template, cfg)
            M == cfg.backReferenceMarker
            P == h.patterns
            n == Len(P)
            isRef(i) == ExactBackRef(P[i], M)
            refs == {i \in 1..n : isRef(i)}
            rank(i) == RankAmongActual(P, M, i)
            nActual == n - Cardinality(refs)
            nth(k) == CHOOSE i \in 1..n : ~isRef(i) /\ rank(i) = k - 1
            opts(i) == collectValues(ExpressionOf(P[i], cfg))
            lens == [k \in 1..nActual |-> Len(opts(nth(k)))]
            draws == {d \in [1..nActual -> 0..Max(MaxOf(lens) - 1, 0)] :
                        \A k \in 1..nActual :
                           /\ d[k] < lens[k]
                           /\ picked.inputChoices[k] # NoChoice
                                 => d[k] = picked.inputChoices[k]}
            rendered(d) ==
                {opts(nth(k))[d[k] + 1] : k \in 1..nActual}
                   \cup {fallbackText(cfg, DigitsToNat(Tail(P[i]))) : i \in refs}
        IN /\ Len(picked.inputChoices) = nActual
           /\ (\A k \in 1..nActual :
                  lens[k] >= 1 /\ picked.inputChoices[k] < lens[k]) =>
                \E d \in draws : \E r \in [refs -> rendered(d)] :
                    picked.value =
                       buildResult(h.stringParts,
                          [i \in 1..n |->
                              IF isRef(i) THEN r[i]
                              ELSE opts(i)[d[rank(i) + 1] + 1]])

\* a back reference and then an actual placeholder of two values: the only
\* argument selects the second value of the actual placeholder
C21_Witness ==
    /\ mode = "choose" /\ picked.status = "ret"
    /\ LET refs == backReferencesOf(subHelper(template, cfg).patterns, cfg)
       IN Len(refs) = 2 /\ refs[1] # Null /\ refs[2] = Null
    /\ actualLens(template, cfg) = <<2>>
    /\ picked.inputChoices = <<1>>

(***************************************************************************)
(* C22: a back reference placeholder is a factor of 1.  The template with  *)
(* any one of its back reference placeholders taken out has the same       *)
(* count, yields as many strings, and gives the actual placeholders the    *)
(* same values in the same order.                                          *)
(***************************************************************************)
\* the template t without its i-th placeholder
RemovePlaceholder(t, c, i) ==
    LET h == subHelper(t, c)
    IN buildResult(h.stringParts,
          [j \in 1..Len(h.patterns) |->
              IF j = i THEN <<>>
              ELSE c.patternStart \o h.patterns[j] \o c.patternEnd])

RECURSIVE ActualValues(_, _, _, _)
\* the values of combo at the placeholders that are not marker+digits
ActualValues(combo, patterns, marker, i) ==
    IF i > Len(patterns) THEN <<>>
    ELSE (IF ExactBackRef(patterns[i], marker) THEN <<>> ELSE <<combo[i]>>)
            \o ActualValues(combo, patterns, marker, i + 1)

C22_BackReferenceIsFactorOne ==
    (mode = "parse" /\ Done) =>
        LET P == subHelper(template, cfg).patterns
            M == cfg.backReferenceMarker
        IN \A i \in 1..Len(P) :
              ExactBackRef(P[i], M) =>
                 LET t2 == RemovePlaceholder(template, cfg, i)
                     P2 == subHelper(t2, cfg).patterns
                     c2 == parseCombos(t2, cfg)
                 IN /\ Len(P2) = Len(P) - 1
                    /\ Len(outputs) = Len(c2)
                    /\ cnt.status = "ret" => cnt.value = count(t2, cfg)
                    /\ \A p \in 1..Len(outputs) :
                          ActualValues(combos[p], P, M, 1) = ActualValues(c2[p], P2, M, 1)

\* a choice of two and a back reference to it: two strings, count 2
C22_Witness ==
    /\ mode = "parse" /\ Done /\ cnt.status = "ret" /\ cnt.value = 2
    /\ LET P == subHelper(template, cfg).patterns
       IN /\ Len(P) = 2
          /\ ~ExactBackRef(P[1], cfg.backReferenceMarker)
          /\ P[2] = <<cfg.backReferenceMarker, "0">>
    /\ Len(outputs) = 2
    /\ combos[2][2] = combos[2][1]

(***************************************************************************)
(* C29: in compile an expression that is neither a generator nor an array  *)
(* is a single static value: it is a factor of 1 in the number of outputs  *)
(* and its text stands unchanged at its position in every output.          *)
(***************************************************************************)
C29_StaticExpression ==
    (mode = "compile" /\ Done) =>
        LET n == Len(exprs)
            card(j) == IF exprs[j].kind = "value" THEN 1
                       ELSE Len(collectValues(exprs[j]))
        IN (\E k \in 1..n : exprs[k].kind = "value") =>
              /\ Len(outputs) = Product([j \in 1..n |-> card(j)])
              /\ \A p \in 1..Len(outputs) :
                    /\ outputs[p] = buildResult(strings, combos[p])
                    /\ \A k \in 1..n :
                          exprs[k].kind = "value" => combos[p][k] = exprs[k].value

\* a static value between an array of two and an array of three: six outputs
C29_Witness ==
    /\ mode = "compile" /\ Done
    /\ Len(exprs) = 3
    /\ exprs[1].kind = "choices" /\ Len(exprs[1].options) = 2
    /\ exprs[2].kind = "value"
    /\ exprs[3].kind = "choices" /\ Len(exprs[3].options) = 3
    /\ Len(outputs) = 6
    /\ \A p \in 1..6 : combos[p][2] = exprs[2].value

(***************************************************************************)
(* C23: for every input the tokenizer returns one literal segment more     *)
(* than placeholders, and every placeholder is non-empty and holds no      *)
(* character of the end delimiter.                                         *)
(***************************************************************************)
C23_SegmentsAndPlaceholders ==
    (mode = "tokenize" /\ tokens.status = "ret") =>
        /\ Len(tokens.stringParts) = Len(tokens.patterns) + 1
        /\ \A k \in 1..Len(tokens.patterns) :
              /\ tokens.patterns[k] # <<>>
              /\ \A q \in 1..Len(tokens.patterns[k]) :
                    \A e \in 1..Len(cfg.patternEnd) :
                       tokens.patterns[k][q] # cfg.patternEnd[e]

\* two placeholders and an empty pair of delimiters left in a segment
C23_Witness ==
    /\ mode = "tokenize" /\ tokens.status = "ret"
    /\ cfg = DefaultConfig
    /\ template = <<"{", "a", "}", "{", "}">>
    /\ tokens.patterns = <<<<"a">>>>
    /\ tokens.stringParts = <<<<>>, <<"{", "}">>>>

RECURSIVE Reassemble(_, _, _, _, _)
\* segment 1, then for each of the first k placeholders the start delimiter,
\* the placeholder, the end delimiter and the next segment
Reassemble(stringParts, patterns, patternStart, patternEnd, k) ==
    IF k = 0 THEN stringParts[1]
    ELSE Reassemble(stringParts, patterns, patternStart, patternEnd, k - 1)
            \o patternStart \o patterns[k] \o patternEnd \o stringParts[k + 1]

(***************************************************************************)
(* C24: with delimiters of one character, the segments and the placeholders*)
(* between their delimiters, concatenated in order, are the template.      *)
(***************************************************************************)
C24_TokenizingLosesNothing ==
    (/\ mode = "tokenize" /\ tokens.status = "ret"
     /\ Len(cfg.patternStart) = 1 /\ Len(cfg.patternEnd) = 1) =>
        /\ Len(tokens.stringParts) = Len(tokens.patterns) + 1
        /\ Reassemble(tokens.stringParts, tokens.patterns, cfg.patternStart,
                      cfg.patternEnd, Len(tokens.patterns)) = template

\* two placeholders with an end delimiter between them
C24_Witness ==
    /\ mode = "tokenize" /\ tokens.status = "ret"
    /\ cfg = DefaultConfig
    /\ template = <<"{", "a", "}", "}", "{", "a", "}">>
    /\ tokens.patterns = <<<<"a">>, <<"a">>>>
    /\ tokens.stringParts = <<<<>>, <<"}">>, <<>>>>

\* the positions of the template that the k-th placeholder and its delimiters take
PlaceholderSpan(k) ==
    LET S == cfg.patternStart
        E == cfg.patternEnd
        from == Len(Reassemble(tokens.stringParts, tokens.patterns, S, E, k - 1)) + 1
    IN from..(from + Len(S) + Len(tokens.patterns[k]) + Len(E) - 1)

\* position q of the template belongs to a literal segment
InSegment(q) == \A k \in 1..Len(tokens.patterns) : q \notin PlaceholderSpan(k)

\* a start delimiter at i with no end delimiter starting after i
UnterminatedStart(i) ==
    /\ StartsAt(template, i, cfg.patternStart)
    /\ ~\E j \in (i + 1)..Len(template) :
           StartsAt(template, j, cfg.patternEnd)

\* an end delimiter at j with no start delimiter starting before j
UnmatchedEnd(j) ==
    /\ StartsAt(template, j, cfg.patternEnd)
    /\ ~\E i \in 1..(j - 1) :
           StartsAt(template, i, cfg.patternStart)

(***************************************************************************)
(* C25: the tokenizer returns for every input; a template in which no      *)
(* start delimiter has an end delimiter starting after it has no           *)
(* placeholder and one segment, the template; a start delimiter with no    *)
(* end delimiter starting after it and an end delimiter with no start      *)
(* delimiter starting before it lie in the literal segments.               *)
(***************************************************************************)
C25_UnmatchedDelimitersAreLiteral ==
    (mode = "tokenize" /\ tokens.status = "ret") =>
        /\ (\A i \in 1..Len(template) :
               StartsAt(template, i, cfg.patternStart) => UnterminatedStart(i))
              => /\ tokens.patterns = <<>>
                 /\ tokens.stringParts = <<template>>
        /\ Len(tokens.stringParts) = Len(tokens.patterns) + 1
        /\ \A i \in 1..Len(template) :
              UnterminatedStart(i) =>
                 \A q \in i..(i + Len(cfg.patternStart) - 1) : InSegment(q)
        /\ \A j \in 1..Len(template) :
              UnmatchedEnd(j) =>
                 \A q \in j..(j + Len(cfg.patternEnd) - 1) : InSegment(q)

\* an end delimiter first, a placeholder, a start delimiter last
C25_Witness ==
    /\ mode = "tokenize" /\ tokens.status = "ret"
    /\ cfg = DefaultConfig
    /\ template = <<"}", "{", "a", "}", "{">>
    /\ UnmatchedEnd(1) /\ UnterminatedStart(5)
    /\ tokens.patterns = <<<<"a">>>>
    /\ tokens.stringParts = <<<<"}">>, <<"{">>>>

\* the first position from j on where e starts in t, Len(t) + 1 if there is none
FirstAt(t, j, e) ==
    LET hits == {q \in j..Len(t) : StartsAt(t, q, e)}
    IN IF hits = {} THEN Len(t) + 1 ELSE CHOOSE q \in hits : \A r \in hits : q <= r

RECURSIVE OccurrencesFrom(_, _, _, _)
\* the contents of the occurrences, from position i on and from left to right, of
\* the start delimiter, a non-empty content without the whole end delimiter,
\* and the end delimiter
OccurrencesFrom(t, i, patternStart, patternEnd) ==
    IF i > Len(t) THEN <<>>
    ELSE LET j == i + Len(patternStart)
             q == FirstAt(t, j, patternEnd)
         IN IF StartsAt(t, i, patternStart) /\ q > j /\ q <= Len(t)
            THEN <<SubSeq(t, j, q - 1)>>
                    \o OccurrencesFrom(t, q + Len(patternEnd), patternStart, patternEnd)
            ELSE OccurrencesFrom(t, i + 1, patternStart, patternEnd)

(***************************************************************************)
(* C27 (as claimed): with delimiters of several characters the tokenizer   *)
(* extracts every occurrence of the start delimiter, a non-empty content   *)
(* that does not contain the whole end delimiter, and the end delimiter; a *)
(* content holding single characters of the end delimiter is extracted.    *)
(***************************************************************************)
C27_MultiCharacterDelimiters ==
    (/\ mode = "tokenize" /\ tokens.status = "ret"
     /\ Len(cfg.patternStart) > 1 /\ Len(cfg.patternEnd) > 1) =>
        tokens.patterns =
            OccurrencesFrom(template, 1, cfg.patternStart, cfg.patternEnd)

\* a non-empty part that is digits, or "-" and digits
NumericPart(part) ==
    LET body == IF part # <<>> /\ part[1] = "-" THEN Tail(part) ELSE part
    IN body # <<>> /\ \A k \in 1..Len(body) : IsDigit(body[k])

\* the number a numeric part writes
NumberOfPart(part) ==
    IF part[1] = "-" THEN -DigitsToNat(Tail(part)) ELSE DigitsToNat(part)

\* s without its whitespace
NoWhitespace(s) == SelectSeq(s, LAMBDA ch : ch # " ")

\* s without the run of sep at its end
WithoutTrailing(s, sep) ==
    LET last == CHOOSE k \in 0..Len(s) :
                   /\ k = 0 \/ s[k] # sep
                   /\ \A m \in (k + 1)..Len(s) : s[m] = sep
    IN SubSeq(s, 1, last)

\* the parts of a placeholder between its range separators, after its
\* whitespace and the range separators at its end are removed
RangeParts(pattern, c) ==
    Between(WithoutTrailing(NoWhitespace(pattern), c.separatorRange), c.separatorRange)

\* the placeholder has the shape of a range
IsRangeShape(pattern, c) ==
    /\ \E q \in 1..Len(WithoutTrailing(NoWhitespace(pattern), c.separatorRange)) :
          WithoutTrailing(NoWhitespace(pattern), c.separatorRange)[q] = c.separatorRange
    /\ Len(RangeParts(pattern, c)) \in {2, 3}
    /\ \A k \in 1..Len(RangeParts(pattern, c)) : NumericPart(RangeParts(pattern, c)[k])

\* what a placeholder stands for by its shape
ShapeExpression(pattern, c) ==
    IF IsRangeShape(pattern, c)
    THEN LET parts == RangeParts(pattern, c)
         IN range(NumberOfPart(parts[1]), NumberOfPart(parts[2]),
                  IF Len(parts) = 3 THEN NumberOfPart(parts[3]) ELSE 1, TRUE)
    ELSE ArrayGen(Between(pattern, c.separatorChoices))

\* the cardinality of a placeholder by its shape
ShapeCardinality(pattern, c) ==
    IF IsRangeShape(pattern, c)
    THEN Len(collectValues(ShapeExpression(pattern, c)))
    ELSE Cardinality({q \in 1..Len(pattern) : pattern[q] = c.separatorChoices}) + 1

(***************************************************************************)
(* C26: a placeholder that is no back reference is a range exactly when,   *)
(* without its whitespace and the range separators at its end, it holds a  *)
(* range separator and splits by it into 2 or 3 non-empty numeric parts;   *)
(* every other one is a choice list of as many options as it has choice    *)
(* separators plus 1.  count is the product of these cardinalities, parse  *)
(* yields that many strings, those of the ranges and lists so determined,  *)
(* and choose selects among the same values.                               *)
(***************************************************************************)
C26_RangeOrChoice ==
    LET h == subHelper(template, cfg)
        P == h.patterns
        M == cfg.backReferenceMarker
        n == Len(P)
        noRefs == \A i \in 1..n : ~ExactBackRef(P[i], M)
        card == [i \in 1..n |-> IF ExactBackRef(P[i], M) THEN 1
                                ELSE ShapeCardinality(P[i], cfg)]
    IN /\ (mode = "parse" /\ Done /\ cnt.status = "ret") =>
            /\ cnt.value = Product(card)
            /\ Len(outputs) = Product(card)
            /\ noRefs => outputs = compileAll(h.stringParts,
                                      [i \in 1..n |-> ShapeExpression(P[i], cfg)])
       /\ (mode = "choose" /\ picked.status = "ret" /\ noRefs) =>
            /\ Len(picked.inputChoices) = n
            /\ (\A k \in 1..n : picked.inputChoices[k] # NoChoice) =>
                  picked.value = buildResult(h.stringParts,
                     [k \in 1..n |->
                         IF picked.inputChoices[k] < card[k]
                         THEN collectValues(ShapeExpression(P[k], cfg))
                                 [picked.inputChoices[k] + 1]
                         ELSE UndefinedText])

\* {1,2,3,4}{1,3,}: one option and then the range 1, 2, 3
C26_Witness ==
    /\ mode = "parse" /\ Done /\ cnt.status = "ret"
    /\ LET R == cfg.separatorRange
           P == subHelper(template, cfg).patterns
       IN /\ P = << <<"1", R, "2", R, "3", R, "4">>, <<"1", R, "3", R>> >>
          /\ ~IsRangeShape(P[1], cfg) /\ IsRangeShape(P[2], cfg)
          /\ outputs = << <<"1", R, "2", R, "3", R, "4", "1">>,
                          <<"1", R, "2", R, "3", R, "4", "2">>,
                          <<"1", R, "2", R, "3", R, "4", "3">> >>
    /\ cnt.value = 3

\* a placeholder a,b or a,b,s with a <= b and s > 0
IsIncreasingRange(pattern, c) ==
    /\ IsRangeShape(pattern, c)
    /\ LET g == ShapeExpression(pattern, c) IN g.start <= g.end /\ g.step > 0

\* floor((b - a) / s) + 1, and 1 more when (b - a) mod s is not 0
RangeCardinality(a, b, s) ==
    ((b - a) \div s) + 1 + (IF (b - a) % s # 0 THEN 1 ELSE 0)

\* the k-th value (from 0) of the range a, b, s: the steps while they do not
\* pass b, then b
RangeValueAt(a, b, s, k) == IF a + k * s <= b THEN a + k * s ELSE b

IsPrefix(s, full) ==
    /\ Len(s) <= Len(full)
    /\ \A p \in 1..Len(s) : s[p] = full[p]

====
